---- MODULE Spec2Model ----
(***************************************************************************)
(* A model of examples/show_pixel_info.py: a script that opens one image   *)
(* with the imaging library, reads its size and prints one line per pixel  *)
(* in a nested loop (rows outside, columns inside).                        *)
(*                                                                         *)
(* The imaging library is not part of the repository.  It is modelled by   *)
(* the file the script is run on: whether it opens, its mode, its size,    *)
(* its pixel data and the coordinate (if any) at which reading fails.      *)
(***************************************************************************)
EXTENDS Integers, Sequences, FiniteSets, TLC

\* Largest image width and height explored.
MaxWidth == 2
MaxHeight == 2
\* How many times the script is run on the same file (specification TwoRuns).
MaxRuns == 2

\* The value of a name the script has not assigned yet.
Unbound == -1

\* The number of targets of the unpacking assignment `r, g, b = ...`.
Targets == 3

\* No coordinate: the file reads without failure.
NoFail == <<Unbound, Unbound>>

Modes == {"L", "RGB", "RGBA"}
PaletteIdx == {0, 1}

\* What the library's getpixel returns for a stored sample, by image mode:
\* one value for "L" (an integer, here a 1-tuple), three for "RGB", four for
\* "RGBA".
SampleOf(mode, idx) ==
    CASE mode = "L"    -> IF idx = 0 THEN <<0>> ELSE <<128>>
      [] mode = "RGB"  -> IF idx = 0 THEN <<0, 0, 0>> ELSE <<255, 128, 0>>
      [] mode = "RGBA" -> IF idx = 0 THEN <<0, 0, 0, 255>> ELSE <<255, 128, 0, 255>>

Coords(w, h) == (0 .. w - 1) \X (0 .. h - 1)

\* A path that does not open: missing, unreadable or not an image.
MissingFile ==
    [decodable |-> FALSE, mode |-> "RGB", width |-> 0, height |-> 0,
     data |-> [c \in {} |-> 0], failAt |-> NoFail]

ImageFilesOfSize(w, h) ==
    { [decodable |-> TRUE, mode |-> m, width |-> w, height |-> h,
       data |-> d, failAt |-> f] :
        m \in Modes, d \in [Coords(w, h) -> PaletteIdx],
        f \in Coords(w, h) \cup {NoFail} }

\* The files "pic2.jpg" may be.
Files ==
    {MissingFile} \cup
    UNION { ImageFilesOfSize(w, h) : w \in 0 .. MaxWidth, h \in 0 .. MaxHeight }

VARIABLES
    file,       \* the file at the path "pic2.jpg"
    pc,         \* the statement the script is at
    image,      \* the name `image`: "unbound", "open" or "closed"
    width,      \* the name `width`
    height,     \* the name `height`
    y,          \* the name `y`
    x,          \* the name `x`
    ynext,      \* position of the iterator of range(height)
    xnext,      \* position of the iterator of range(width)
    r, g, b,    \* the names `r`, `g`, `b`
    out,        \* the lines written to standard output
    err,        \* the exception that ended the run, or "none"
    visited,    \* history: the coordinates getpixel was called with, in order
    run,        \* history: the number of the current run
    prevOut,    \* history: the output of the previous run
    prevErr     \* history: the exception of the previous run

vars == <<file, pc, image, width, height, y, x, ynext, xnext, r, g, b,
          out, err, visited, run, prevOut, prevErr>>

\* The state of a fresh interpreter about to execute line 4.
Fresh ==
    /\ pc = "open"
    /\ image = "unbound"
    /\ width = Unbound /\ height = Unbound
    /\ y = Unbound /\ x = Unbound
    /\ ynext = 0 /\ xnext = 0
    /\ r = Unbound /\ g = Unbound /\ b = Unbound
    /\ out = <<>>
    /\ err = "none"
    /\ visited = <<>>

Init ==
    /\ file \in Files
    /\ Fresh
    /\ run = 1
    /\ prevOut = <<>>
    /\ prevErr = "none"

\* image.getpixel((x, y)) of the library: the sample stored at the coordinate.
getpixel(f, px, py) == SampleOf(f.mode, f.data[<<px, py>>])

\* The library raises when the coordinate is outside the image or the data
\* there cannot be read.
getpixelRaises(f, px, py) ==
    \/ <<px, py>> \notin DOMAIN f.data
    \/ <<px, py>> = f.failAt

\* f"Pixel at ({x}, {y}) - R: {r}, G: {g}, B: {b}"
fstring(px, py, pr, pg, pb) ==
    "Pixel at (" \o ToString(px) \o ", " \o ToString(py) \o ") - R: "
        \o ToString(pr) \o ", G: " \o ToString(pg) \o ", B: " \o ToString(pb)

\* Open with the failure swallowed: the script goes on to read the size.
Open_swallow ==
    /\ pc = "open"
    /\ IF file.decodable
         THEN /\ image' = "open"
              /\ pc' = "size"
              /\ err' = err
         ELSE /\ pc' = "size"
              /\ UNCHANGED <<image, err>>
    /\ UNCHANGED <<file, width, height, y, x, ynext, xnext, r, g, b, out,
                   visited, run, prevOut, prevErr>>

\* image = Image.open("pic2.jpg")
Open ==
    /\ pc = "open"
    /\ IF file.decodable
         THEN /\ image' = "open"
              /\ pc' = "size"
              /\ err' = err
         ELSE /\ err' = "DecodeError"
              /\ pc' = "error"
              /\ image' = image
    /\ UNCHANGED <<file, width, height, y, x, ynext, xnext, r, g, b, out,
                   visited, run, prevOut, prevErr>>

\* width, height = image.size, and the creation of range(height)'s iterator
Size ==
    /\ pc = "size"
    /\ width' = file.width
    /\ height' = file.height
    /\ ynext' = 0
    /\ pc' = "for_y"
    /\ UNCHANGED <<file, image, y, x, xnext, r, g, b, out, err, visited,
                   run, prevOut, prevErr>>

\* ForY with the image closed when the loop ends, as a `with` block would.
ForY_close ==
    /\ pc = "for_y"
    /\ IF ynext < height
         THEN /\ y' = ynext
              /\ ynext' = ynext + 1
              /\ xnext' = 0
              /\ pc' = "for_x"
              /\ image' = image
         ELSE /\ pc' = "done"
              /\ image' = "closed"
              /\ UNCHANGED <<y, ynext, xnext>>
    /\ UNCHANGED <<file, width, height, x, r, g, b, out, err, visited,
                   run, prevOut, prevErr>>

\* for y in range(height): the next row, or the end of the script
ForY ==
    /\ pc = "for_y"
    /\ IF ynext < height
         THEN /\ y' = ynext
              /\ ynext' = ynext + 1
              /\ xnext' = 0
              /\ pc' = "for_x"
         ELSE /\ pc' = "done"
              /\ UNCHANGED <<y, ynext, xnext>>
    /\ UNCHANGED <<file, image, width, height, x, r, g, b, out, err, visited,
                   run, prevOut, prevErr>>

\* ForX with the inner loop one column long: range(width + 1).
ForX_long ==
    /\ pc = "for_x"
    /\ IF xnext < width + 1
         THEN /\ x' = xnext
              /\ xnext' = xnext + 1
              /\ pc' = "getpixel"
         ELSE /\ pc' = "for_y"
              /\ UNCHANGED <<x, xnext>>
    /\ UNCHANGED <<file, image, width, height, y, ynext, r, g, b, out, err,
                   visited, run, prevOut, prevErr>>

\* ForX with an iterator that never advances: the same column again.
ForX_stuck ==
    /\ pc = "for_x"
    /\ IF xnext < width
         THEN /\ x' = xnext
              /\ xnext' = xnext
              /\ pc' = "getpixel"
         ELSE /\ pc' = "for_y"
              /\ UNCHANGED <<x, xnext>>
    /\ UNCHANGED <<file, image, width, height, y, ynext, r, g, b, out, err,
                   visited, run, prevOut, prevErr>>

\* ForX with the inner loop one column short: range(width - 1).
ForX_short ==
    /\ pc = "for_x"
    /\ IF xnext < width - 1
         THEN /\ x' = xnext
              /\ xnext' = xnext + 1
              /\ pc' = "getpixel"
         ELSE /\ pc' = "for_y"
              /\ UNCHANGED <<x, xnext>>
    /\ UNCHANGED <<file, image, width, height, y, ynext, r, g, b, out, err,
                   visited, run, prevOut, prevErr>>

\* for x in range(width): the next column, or back to the outer loop
ForX ==
    /\ pc = "for_x"
    /\ IF xnext < width
         THEN /\ x' = xnext
              /\ xnext' = xnext + 1
              /\ pc' = "getpixel"
         ELSE /\ pc' = "for_y"
              /\ UNCHANGED <<x, xnext>>
    /\ UNCHANGED <<file, image, width, height, y, ynext, r, g, b, out, err,
                   visited, run, prevOut, prevErr>>

\* GetPixel with a failed access skipped: the loop goes on to the next pixel.
GetPixel_skip ==
    /\ pc = "getpixel"
    /\ visited' = Append(visited, <<x, y>>)
    /\ IF getpixelRaises(file, x, y)
         THEN /\ pc' = "for_x"
              /\ UNCHANGED <<r, g, b, err>>
         ELSE LET s == getpixel(file, x, y) IN
              IF Len(s) = Targets
                THEN /\ r' = s[1] /\ g' = s[2] /\ b' = s[3]
                     /\ pc' = "print"
                     /\ err' = err
                ELSE /\ err' = "PixelAccessError"
                     /\ pc' = "error"
                     /\ UNCHANGED <<r, g, b>>
    /\ UNCHANGED <<file, image, width, height, y, x, ynext, xnext, out,
                   run, prevOut, prevErr>>

\* GetPixel with a read that changes the stored sample it returns.
GetPixel_destructive ==
    /\ pc = "getpixel"
    /\ visited' = Append(visited, <<x, y>>)
    /\ IF getpixelRaises(file, x, y)
         THEN /\ err' = "PixelAccessError"
              /\ pc' = "error"
              /\ UNCHANGED <<r, g, b, file>>
         ELSE LET s == getpixel(file, x, y) IN
              IF Len(s) = Targets
                THEN /\ r' = s[1] /\ g' = s[2] /\ b' = s[3]
                     /\ pc' = "print"
                     /\ err' = err
                     /\ file' = [file EXCEPT !.data[<<x, y>>] = 1 - @]
                ELSE /\ err' = "PixelAccessError"
                     /\ pc' = "error"
                     /\ UNCHANGED <<r, g, b, file>>
    /\ UNCHANGED <<image, width, height, y, x, ynext, xnext, out,
                   run, prevOut, prevErr>>

\* GetPixel with the channels unpacked in the order b, g, r.
GetPixel_bgr ==
    /\ pc = "getpixel"
    /\ visited' = Append(visited, <<x, y>>)
    /\ IF getpixelRaises(file, x, y)
         THEN /\ err' = "PixelAccessError"
              /\ pc' = "error"
              /\ UNCHANGED <<r, g, b>>
         ELSE LET s == getpixel(file, x, y) IN
              IF Len(s) = Targets
                THEN /\ b' = s[1] /\ g' = s[2] /\ r' = s[3]
                     /\ pc' = "print"
                     /\ err' = err
                ELSE /\ err' = "PixelAccessError"
                     /\ pc' = "error"
                     /\ UNCHANGED <<r, g, b>>
    /\ UNCHANGED <<file, image, width, height, y, x, ynext, xnext, out,
                   run, prevOut, prevErr>>

\* r, g, b = image.getpixel((x, y)): the call, then the unpacking of its
\* result into exactly three names; either may raise, and nothing is bound
\* when it does.
GetPixel ==
    /\ pc = "getpixel"
    /\ visited' = Append(visited, <<x, y>>)
    /\ IF getpixelRaises(file, x, y)
         THEN /\ err' = "PixelAccessError"
              /\ pc' = "error"
              /\ UNCHANGED <<r, g, b>>
         ELSE LET s == getpixel(file, x, y) IN
              IF Len(s) = Targets
                THEN /\ r' = s[1] /\ g' = s[2] /\ b' = s[3]
                     /\ pc' = "print"
                     /\ err' = err
                ELSE /\ err' = "PixelAccessError"
                     /\ pc' = "error"
                     /\ UNCHANGED <<r, g, b>>
    /\ UNCHANGED <<file, image, width, height, y, x, ynext, xnext, out,
                   run, prevOut, prevErr>>

\* PrintLine with the coordinate printed as (y, x).
PrintLine_yx ==
    /\ pc = "print"
    /\ out' = Append(out, fstring(y, x, r, g, b))
    /\ pc' = "for_x"
    /\ UNCHANGED <<file, image, width, height, y, x, ynext, xnext, r, g, b,
                   err, visited, run, prevOut, prevErr>>

\* print(f"Pixel at ({x}, {y}) - R: {r}, G: {g}, B: {b}")
PrintLine ==
    /\ pc = "print"
    /\ out' = Append(out, fstring(x, y, r, g, b))
    /\ pc' = "for_x"
    /\ UNCHANGED <<file, image, width, height, y, x, ynext, xnext, r, g, b,
                   err, visited, run, prevOut, prevErr>>

\* The script has ended: it fell off its last line or an exception escaped.
Terminated == pc \in {"done", "error"}

\* The script is started again on the same path, in a fresh interpreter.
Rerun ==
    /\ Terminated
    /\ run < MaxRuns
    /\ run' = run + 1
    /\ prevOut' = out
    /\ prevErr' = err
    /\ file' = file
    /\ pc' = "open"
    /\ image' = "unbound"
    /\ width' = Unbound /\ height' = Unbound
    /\ y' = Unbound /\ x' = Unbound
    /\ ynext' = 0 /\ xnext' = 0
    /\ r' = Unbound /\ g' = Unbound /\ b' = Unbound
    /\ out' = <<>>
    /\ err' = "none"
    /\ visited' = <<>>

Next == Open \/ Size \/ ForY \/ ForX \/ GetPixel \/ PrintLine

Spec == Init /\ [][Next]_vars

\* The interpreter keeps executing the script until it ends.
FairSpec == Init /\ [][Next]_vars /\ WF_vars(Next)

NextTwice == Next \/ Rerun

TwoRuns == Init /\ [][NextTwice]_vars

(***************************************************************************)
(* The properties checked.                                                 *)
(***************************************************************************)

\* The image's width and height, as the file has them.
W == file.width
H == file.height

\* The decimal numeral of a number, written out.
Dec(n) ==
    CASE n = 0 -> "0" [] n = 1 -> "1" [] n = 2 -> "2" [] n = 3 -> "3"
      [] n = 4 -> "4" [] n = 128 -> "128" [] n = 255 -> "255"

\* The text of the line for a coordinate and three channel values.
LineText(px, py, pr, pg, pb) ==
    "Pixel at (" \o Dec(px) \o ", " \o Dec(py) \o ") - R: " \o Dec(pr)
        \o ", G: " \o Dec(pg) \o ", B: " \o Dec(pb)

ChannelValues == {0, 128, 255}

\* The i-th coordinate (from 1) of a w-wide image in row-major order.
RowMajor(i, w) == <<(i - 1) % w, (i - 1) \div w>>

\* The run ended normally: the image opened and every access succeeded.
Succeeded == pc = "done"

\* C1: the coordinates of the output lines, in the order the lines are
\* written, are in row-major order: the first is (0, 0); each next one is
\* one column to the right in the same row, or column 0 of the next row
\* after column W-1; and a run that succeeds ends with (W-1, H-1).
C1_RowMajorOrder ==
    /\ \A i \in 1 .. Len(out) :
          \E cr \in ChannelValues, cg \in ChannelValues, cb \in ChannelValues :
              out[i] = LineText(visited[i][1], visited[i][2], cr, cg, cb)
    /\ visited # <<>> => visited[1] = <<0, 0>>
    /\ \A i \in 1 .. Len(visited) - 1 :
          LET p == visited[i]
              q == visited[i + 1]
          IN  \/ q[2] = p[2] /\ q[1] = p[1] + 1
              \/ p[1] = W - 1 /\ q[1] = 0 /\ q[2] = p[2] + 1
    /\ Succeeded /\ visited # <<>> => visited[Len(visited)] = <<W - 1, H - 1>>
    /\ Succeeded => Len(out) = Len(visited)

C1_Witness ==
    /\ Succeeded
    /\ W = 2 /\ H = 2
    /\ visited = <<<<0, 0>>, <<1, 0>>, <<0, 1>>, <<1, 1>>>>
    /\ Len(out) = 4

\* C2: a run that completes without error has visited every coordinate of
\* the W x H image exactly once and has written exactly W * H lines; no
\* coordinate is ever visited twice.
C2_EveryPixelOnce ==
    /\ \A i \in 1 .. Len(visited) : \A j \in 1 .. Len(visited) :
          i # j => visited[i] # visited[j]
    /\ Succeeded =>
          /\ { visited[i] : i \in 1 .. Len(visited) } = Coords(W, H)
          /\ Len(visited) = W * H
          /\ Len(out) = W * H

C2_Witness ==
    /\ Succeeded
    /\ W = 2 /\ H = 1
    /\ Len(out) = 2
    /\ Len(visited) = 2

\* C3: the i-th line written is the text "Pixel at (x, y) - R: r, G: g, B: b"
\* for the i-th coordinate and the three values the library returns there,
\* in that order; a 1x1 image of (255, 128, 0) gives its one line and a 2x2
\* black image its four.
C3_LineContents ==
    /\ \A i \in 1 .. Len(out) :
          LET c == RowMajor(i, W)
              s == getpixel(file, c[1], c[2])
          IN  /\ Len(s) = 3
              /\ out[i] = LineText(c[1], c[2], s[1], s[2], s[3])
    /\ ( /\ Succeeded /\ file.mode = "RGB" /\ W = 1 /\ H = 1
         /\ file.data[<<0, 0>>] = 1 )
          => out = <<"Pixel at (0, 0) - R: 255, G: 128, B: 0">>
    /\ ( /\ Succeeded /\ file.mode = "RGB" /\ W = 2 /\ H = 2
         /\ \A c \in Coords(2, 2) : file.data[c] = 0 )
          => out = << "Pixel at (0, 0) - R: 0, G: 0, B: 0",
                      "Pixel at (1, 0) - R: 0, G: 0, B: 0",
                      "Pixel at (0, 1) - R: 0, G: 0, B: 0",
                      "Pixel at (1, 1) - R: 0, G: 0, B: 0" >>

C3_Witness ==
    /\ Succeeded
    /\ W = 1 /\ H = 1
    /\ out = <<"Pixel at (0, 0) - R: 255, G: 128, B: 0">>

\* C4: when the file does not open, the script never gets past line 4: it
\* ends with a DecodeError, no line written, no loop entered, no pixel
\* accessed.
C4_OpenFailure ==
    ~file.decodable =>
        /\ pc \in {"open", "error"}
        /\ pc = "error" => err = "DecodeError"
        /\ out = <<>>
        /\ visited = <<>>
        /\ ynext = 0 /\ xnext = 0
        /\ y = Unbound /\ x = Unbound

C4_Witness ==
    /\ ~file.decodable
    /\ pc = "error"
    /\ err = "DecodeError"
    /\ out = <<>>

\* The access at a coordinate fails: the library raises or the unpacking does.
AccessFails(c) ==
    \/ getpixelRaises(file, c[1], c[2])
    \/ Len(getpixel(file, c[1], c[2])) # 3

\* C5: when a pixel access fails after a successful open, the run halts there
\* with a PixelAccessError: the failed access is the last one and is made
\* once, the output is exactly the lines of the coordinates before it in
\* row-major order, and nothing is written for it or after it.
C5_AccessFailureHalts ==
    /\ \A i \in 1 .. Len(visited) :
          AccessFails(visited[i]) =>
              /\ pc = "error"
              /\ err = "PixelAccessError"
              /\ i = Len(visited)
    /\ err = "PixelAccessError" =>
          /\ pc = "error"
          /\ visited # <<>>
          /\ LET n == Len(visited)
                 c == visited[n]
             IN  /\ AccessFails(c)
                 /\ Cardinality({ i \in 1 .. n : visited[i] = c }) = 1
                 /\ Len(out) = n - 1
                 /\ Len(out) = c[2] * W + c[1]
                 /\ \A i \in 1 .. n - 1 :
                       LET d == RowMajor(i, W)
                           s == getpixel(file, d[1], d[2])
                       IN  /\ visited[i] = d
                           /\ out[i] = LineText(d[1], d[2], s[1], s[2], s[3])

C5_Witness ==
    /\ pc = "error"
    /\ err = "PixelAccessError"
    /\ file.mode = "RGB"
    /\ W = 2 /\ H = 2
    /\ file.failAt = <<0, 1>>
    /\ visited = <<<<0, 0>>, <<1, 0>>, <<0, 1>>>>
    /\ Len(out) = 2

\* The number of channel values a pixel of the file has.
Bands == Len(SampleOf(file.mode, 0))

C7_ReleasedOnExit == Terminated => image # "open"

\* C7, amended: the image is opened once, by line 4, and the script never
\* closes it: from a successful open on, and in every state the run ends in
\* after one, the image is held; after a failed open nothing is held.
C7_HeldUntilExit ==
    /\ image \in {"unbound", "open"}
    /\ image = "open" <=> (file.decodable /\ pc # "open")

C7_Witness ==
    /\ pc = "done"
    /\ image = "open"
    /\ W = 1 /\ H = 2
    /\ Len(out) = 2

\* The stage of the run a statement belongs to: open, iterate, exit.
Stage(p) ==
    CASE p = "open" -> 0
      [] p \in {"size", "for_y", "for_x", "getpixel", "print"} -> 1
      [] p \in {"done", "error"} -> 2

\* Coordinate c comes strictly before coordinate d in row-major order.
Before(c, d) == c[2] < d[2] \/ (c[2] = d[2] /\ c[1] < d[1])

\* A step of the run goes forward only.
Forward ==
    /\ Stage(pc') >= Stage(pc)
    /\ Terminated => UNCHANGED vars
    /\ visited' # visited =>
          /\ Len(visited') = Len(visited) + 1
          /\ \A i \in 1 .. Len(visited) :
                Before(visited[i], visited'[Len(visited')])
    /\ Len(out) = W * H => out' = out /\ visited' = visited
    /\ pc' = "done" => Len(out) = W * H

\* C8: the run ends; its steps go open, iterate, exit, never back to an
\* earlier coordinate; and on success nothing is written or read after the
\* line of the last coordinate.
C8_Terminates == <>Terminated /\ [][Forward]_vars

C8_Witness ==
    /\ pc = "done"
    /\ file.mode = "RGB"
    /\ W = 2 /\ H = 2
    /\ file.data[<<1, 1>>] = 1
    /\ out[4] = "Pixel at (1, 1) - R: 255, G: 128, B: 0"

\* Sequence s is a prefix of sequence t.
IsPrefix(s, t) == Len(s) <= Len(t) /\ \A i \in 1 .. Len(s) : s[i] = t[i]

\* C9: a second run on the same file writes the same lines as the first and
\* ends the same way, and no step of a run changes the file.
C9_Deterministic ==
    /\ [](run > 1 =>
            /\ IsPrefix(out, prevOut)
            /\ Terminated => (out = prevOut /\ err = prevErr))
    /\ [][file' = file]_vars

C9_Witness ==
    /\ run = 2
    /\ pc = "done"
    /\ W = 2 /\ H = 2
    /\ Len(out) = 4
    /\ out = prevOut

\* C10: every pixel access is at a coordinate inside the image, whose width
\* and height are read once, before the loop, and not changed after; an
\* image with no column or no row is never accessed, nothing is written for
\* it, and its run ends normally.
C10_InBounds ==
    /\ [](/\ \A i \in 1 .. Len(visited) :
                /\ 0 <= visited[i][1] /\ visited[i][1] < width
                /\ 0 <= visited[i][2] /\ visited[i][2] < height
          /\ pc \in {"getpixel", "print"} =>
                /\ 0 <= x /\ x < width
                /\ 0 <= y /\ y < height
          /\ width # Unbound => (width = W /\ height = H)
          /\ (file.decodable /\ (W = 0 \/ H = 0)) =>
                /\ visited = <<>>
                /\ out = <<>>
                /\ err = "none"
                /\ pc # "error")
    /\ [][width # Unbound => (width' = width /\ height' = height)]_vars

C10_Witness ==
    /\ pc = "done"
    /\ W = 0 /\ H = 2
    /\ ynext = 2
    /\ visited = <<>>
    /\ out = <<>>

====
